---- MODULE Spec2Model ----
(***************************************************************************)
(* A model of Interface.cpp (Endless Sky): the interface loader, the       *)
(* element geometry builder (Element::Load), the per-frame draw pass       *)
(* (Interface::Draw / Element::DrawAt) and the image and bar elements.     *)
(*                                                                         *)
(* Numbers are exact rationals [n, d] (the source uses doubles; every      *)
(* input of the model is a small integer or a small fraction).             *)
(***************************************************************************)
EXTENDS Integers, Sequences, FiniteSets, TLC

VARIABLES
    \* Element::Load (one invocation, line by line)
    globalAlignment, element, isCentered, child, before, wasCentered, loadPc, nLines,
    \* Interface::Load
    alignment, elements, points, visibleIf, activeIf, header, log, ifacePc,
    \* Interface::Draw
    info, mouse, panel, drawIdx, zones, calls, drawPc,
    \* BarElement::Draw and ImageElement::NativeDimensions as functions
    barIn, barOut, imgIn, imgOut

loadVars == <<globalAlignment, element, isCentered, child, before, wasCentered, loadPc, nLines>>
ifaceVars == <<alignment, elements, points, visibleIf, activeIf, header, log, ifacePc>>
drawVars == <<info, mouse, panel, drawIdx, zones, calls, drawPc>>
fnVars == <<barIn, barOut, imgIn, imgOut>>
vars == <<loadVars, ifaceVars, drawVars, fnVars>>

----------------------------------------------------------------------------
\* Bounds of the model.
MaxLines == 3
MaxChildren == 3
MaxDrawElements == 2
MaxSegments == 3
ValueSteps == 4

----------------------------------------------------------------------------
\* double arithmetic, modelled exactly on rationals n/d with d > 0 in lowest terms.

Abs(i) == IF i < 0 THEN -i ELSE i

RECURSIVE GCD(_, _)
GCD(a, b) == IF b = 0 THEN a ELSE GCD(b, a % b)

R(n, d) ==
    LET g == GCD(Abs(n), Abs(d))
        s == IF d < 0 THEN -1 ELSE 1
    IN  [n |-> (s * n) \div g, d |-> (s * d) \div g]

RInt(i) == [n |-> i, d |-> 1]
Zero == RInt(0)
One == RInt(1)
Half == [n |-> 1, d |-> 2]

RAdd(a, b) == R(a.n * b.d + b.n * a.d, a.d * b.d)
RSub(a, b) == R(a.n * b.d - b.n * a.d, a.d * b.d)
RMul(a, b) == R(a.n * b.n, a.d * b.d)
RDiv(a, b) == R(a.n * b.d, a.d * b.n)
RNeg(a) == [n |-> -a.n, d |-> a.d]
RAbs(a) == [n |-> Abs(a.n), d |-> a.d]
RLt(a, b) == a.n * b.d < b.n * a.d
RLe(a, b) == a.n * b.d <= b.n * a.d
RMin(a, b) == IF RLt(b, a) THEN b ELSE a
RIsZero(a) == a.n = 0

----------------------------------------------------------------------------
\* Point: a pair of doubles with componentwise arithmetic.

Point(x, y) == [x |-> x, y |-> y]
P(i, j) == Point(RInt(i), RInt(j))
P0 == P(0, 0)
PAdd(p, q) == Point(RAdd(p.x, q.x), RAdd(p.y, q.y))
PSub(p, q) == Point(RSub(p.x, q.x), RSub(p.y, q.y))
PNeg(p) == Point(RNeg(p.x), RNeg(p.y))
PScale(r, p) == Point(RMul(r, p.x), RMul(r, p.y))
PMul(p, q) == Point(RMul(p.x, q.x), RMul(p.y, q.y))
PAbs(p) == Point(RAbs(p.x), RAbs(p.y))
\* operator!: true for the zero vector.
PNot(p) == RIsZero(p.x) /\ RIsZero(p.y)

----------------------------------------------------------------------------
\* Rectangle: a center and dimensions.

Rectangle(center, dimensions) == [center |-> center, dimensions |-> dimensions]
WithCorners(from, to) == Rectangle(PScale(Half, PAdd(from, to)), PAbs(PSub(to, from)))
Center(r) == r.center
Dimensions(r) == r.dimensions
Width(r) == r.dimensions.x
Height(r) == r.dimensions.y
Left(r) == RSub(r.center.x, RMul(Half, r.dimensions.x))
Top(r) == RSub(r.center.y, RMul(Half, r.dimensions.y))
Right(r) == RAdd(r.center.x, RMul(Half, r.dimensions.x))
Bottom(r) == RAdd(r.center.y, RMul(Half, r.dimensions.y))
TopLeft(r) == PSub(r.center, PScale(Half, r.dimensions))
BottomRight(r) == PAdd(r.center, PScale(Half, r.dimensions))
RectPlus(r, offset) == Rectangle(PAdd(r.center, offset), r.dimensions)
Contains(r, point) ==
    LET d == PScale(RInt(2), PAbs(PSub(point, r.center)))
    IN  RLe(d.x, r.dimensions.x) /\ RLe(d.y, r.dimensions.y)

----------------------------------------------------------------------------
\* DataNode: a line of tokens with child lines. A token has a text and the
\* number it parses to.

Tok(s) == [s |-> s, v |-> 0]
Num(n) == [s |-> "#", v |-> n]
Node(tok, kids) == [tok |-> tok, kids |-> kids]
Line(tok) == Node(tok, <<>>)
Size(n) == Len(n.tok)
Token(n, i) == n.tok[i + 1].s
Value(n, i) == RInt(n.tok[i + 1].v)

----------------------------------------------------------------------------
\* ParseAlignment: each keyword sets one axis of *alignment; anything else
\* is reported and skipped.

\* A variant of ParseAlignment with a slip: "right" sets the axis to -1.
RECURSIVE ParseAlignmentRightAsLeft(_, _, _)
ParseAlignmentRightAsLeft(n, align, i) ==
    IF ~(i < Size(n)) THEN align
    ELSE LET a == IF Token(n, i) = "left" THEN [align EXCEPT !.x = RInt(-1)]
                  ELSE IF Token(n, i) = "top" THEN [align EXCEPT !.y = RInt(-1)]
                  ELSE IF Token(n, i) = "right" THEN [align EXCEPT !.x = RInt(-1)]
                  ELSE IF Token(n, i) = "bottom" THEN [align EXCEPT !.y = RInt(1)]
                  ELSE align
         IN  ParseAlignmentRightAsLeft(n, a, i + 1)

RECURSIVE ParseAlignment(_, _, _)
ParseAlignment(n, align, i) ==
    IF ~(i < Size(n)) THEN align
    ELSE LET a == IF Token(n, i) = "left" THEN [align EXCEPT !.x = RInt(-1)]
                  ELSE IF Token(n, i) = "top" THEN [align EXCEPT !.y = RInt(-1)]
                  ELSE IF Token(n, i) = "right" THEN [align EXCEPT !.x = RInt(1)]
                  ELSE IF Token(n, i) = "bottom" THEN [align EXCEPT !.y = RInt(1)]
                  ELSE align
         IN  ParseAlignment(n, a, i + 1)

----------------------------------------------------------------------------
\* Element: the fields of Interface::Element and of its three subclasses.

INACTIVE == 0
ACTIVE == 1
HOVER == 2

\* A null pointer, and the handles the sprite and color registries hand out.
NullPtr == <<>>
SpriteSetGet(name) == <<name>>
ColorsGet(name) == <<name>>

\* A default-constructed element of the given class ("element" is the base
\* class, used for named points).
NewElement(kind) ==
    [kind |-> kind,
     bounds |-> Rectangle(P0, P0), alignment |-> P0, padding |-> P0,
     visibleIf |-> "", activeIf |-> "",
     name |-> "", str |-> "", buttonKey |-> "", fontSize |-> 14,
     isDynamic |-> FALSE, isOutline |-> FALSE, isColored |-> FALSE, isRing |-> FALSE,
     sprite |-> <<NullPtr, NullPtr, NullPtr>>,
     color |-> <<NullPtr, NullPtr, NullPtr>>,
     barColor |-> NullPtr, width |-> RInt(2)]

\* sprite[state] and color[state] are arrays indexed from 0.
At(arr, state) == arr[state + 1]
Put(arr, state, x) == [arr EXCEPT ![state + 1] = x]

\* Element::ParseLine and its overrides: [el, ok].
ImageParseLine(el, n) ==
    IF Token(n, 0) = "inactive" /\ Size(n) >= 2 /\ el.name = ""
    THEN [el |-> [el EXCEPT !.sprite = Put(@, INACTIVE, SpriteSetGet(Token(n, 1)))], ok |-> TRUE]
    ELSE IF Token(n, 0) = "hover" /\ Size(n) >= 2 /\ el.name = ""
    THEN [el |-> [el EXCEPT !.sprite = Put(@, HOVER, SpriteSetGet(Token(n, 1)))], ok |-> TRUE]
    ELSE IF el.isOutline /\ Token(n, 0) = "colored"
    THEN [el |-> [el EXCEPT !.isColored = TRUE], ok |-> TRUE]
    ELSE [el |-> el, ok |-> FALSE]

TextParseLine(el, n) ==
    IF Token(n, 0) = "size" /\ Size(n) >= 2
    THEN [el |-> [el EXCEPT !.fontSize = n.tok[2].v], ok |-> TRUE]
    ELSE IF Token(n, 0) = "color" /\ Size(n) >= 2
    THEN [el |-> [el EXCEPT !.color = Put(@, ACTIVE, ColorsGet(Token(n, 1)))], ok |-> TRUE]
    ELSE IF Token(n, 0) = "inactive" /\ Size(n) >= 2
    THEN [el |-> [el EXCEPT !.color = Put(@, INACTIVE, ColorsGet(Token(n, 1)))], ok |-> TRUE]
    ELSE IF Token(n, 0) = "hover" /\ Size(n) >= 2
    THEN [el |-> [el EXCEPT !.color = Put(@, HOVER, ColorsGet(Token(n, 1)))], ok |-> TRUE]
    ELSE [el |-> el, ok |-> FALSE]

BarParseLine(el, n) ==
    IF Token(n, 0) = "color" /\ Size(n) >= 2
    THEN [el |-> [el EXCEPT !.barColor = ColorsGet(Token(n, 1))], ok |-> TRUE]
    ELSE IF Token(n, 0) = "size" /\ Size(n) >= 2
    THEN [el |-> [el EXCEPT !.width = Value(n, 1)], ok |-> TRUE]
    ELSE [el |-> el, ok |-> FALSE]

ParseLine(el, n) ==
    IF el.kind = "image" THEN ImageParseLine(el, n)
    ELSE IF el.kind = "text" THEN TextParseLine(el, n)
    ELSE IF el.kind = "bar" THEN BarParseLine(el, n)
    ELSE [el |-> el, ok |-> FALSE]

----------------------------------------------------------------------------
\* Element::Load, one line of the loop at a time.

HasDimensions(c) == Token(c, 0) = "dimensions" /\ Size(c) >= 3
HasWidth(c) == HasDimensions(c) \/ (Token(c, 0) = "width" /\ Size(c) >= 2)
HasHeight(c) == HasDimensions(c) \/ (Token(c, 0) = "height" /\ Size(c) >= 2)

\* The branch of the if-chain that a line takes.
LoadBranch(el, c) ==
    IF Token(c, 0) = "align" /\ Size(c) > 1 THEN "align"
    ELSE IF HasWidth(c) \/ HasHeight(c) THEN "resize"
    ELSE IF Token(c, 0) = "center" /\ Size(c) >= 3 THEN "center"
    ELSE IF Token(c, 0) = "from" /\ Size(c) >= 6 /\ Token(c, 3) = "to" THEN "fromto"
    ELSE IF Token(c, 0) = "from" /\ Size(c) >= 3 THEN "from"
    ELSE IF Token(c, 0) = "pad" /\ Size(c) >= 3 THEN "pad"
    ELSE IF ParseLine(el, c).ok THEN "parseline"
    ELSE "unrecognized"

\* Variants of ShiftedCenter with a slip: the shift with the wrong sign, and
\* the shift applied to a centered element too.
ShiftedCenterWrongSign(center, isCent, globalAxis, oldDimension, newDimension) ==
    IF ~isCent
    THEN RAdd(center, RMul(Half, RMul(globalAxis, RSub(newDimension, oldDimension))))
    ELSE center

ShiftedCenterAlways(center, isCent, globalAxis, oldDimension, newDimension) ==
    RAdd(center, RMul(Half, RMul(globalAxis, RSub(oldDimension, newDimension))))

\* The center after a new width (height) on one axis.
ShiftedCenter(center, isCent, globalAxis, oldDimension, newDimension) ==
    IF ~isCent
    THEN RAdd(center, RMul(Half, RMul(globalAxis, RSub(oldDimension, newDimension))))
    ELSE center

SetWidth(bounds, isCent, global, newWidth) ==
    LET center == Center(bounds)
        dimensions == Dimensions(bounds)
    IN  Rectangle(
            [center EXCEPT !.x = ShiftedCenter(center.x, isCent, global.x, dimensions.x, newWidth)],
            [dimensions EXCEPT !.x = newWidth])

SetHeight(bounds, isCent, global, newHeight) ==
    LET center == Center(bounds)
        dimensions == Dimensions(bounds)
    IN  Rectangle(
            [center EXCEPT !.y = ShiftedCenter(center.y, isCent, global.y, dimensions.y, newHeight)],
            [dimensions EXCEPT !.y = newHeight])

Resize(bounds, isCent, global, c) ==
    LET b1 == IF HasWidth(c) THEN SetWidth(bounds, isCent, global, Value(c, 1)) ELSE bounds
        h == IF HasDimensions(c) THEN 2 ELSE 1
    IN  IF HasHeight(c) THEN SetHeight(b1, isCent, global, Value(c, h)) ELSE b1

\* isCentered after a line: only `center` sets it.
CenteredAfter(isCent, branch) == IF branch = "center" THEN TRUE ELSE isCent

\* A variant of FromPoint with a slip: the offset added, not subtracted.
FromPointWrongSign(bounds, align, c) ==
    Rectangle(
        PAdd(Point(Value(c, 1), Value(c, 2)), PScale(Half, PMul(align, Dimensions(bounds)))),
        Dimensions(bounds))

\* The bounds that `from <x> <y>` gives.
FromPoint(bounds, align, c) ==
    Rectangle(
        PSub(Point(Value(c, 1), Value(c, 2)), PScale(Half, PMul(align, Dimensions(bounds)))),
        Dimensions(bounds))

\* The body of the loop on its branch: [el, isCentered] after the line.
LoadLineOn(branch, el, isCent, c, global) ==
        [isCentered |-> CenteredAfter(isCent, branch),
         el |->
            CASE branch = "align" ->
                    [el EXCEPT !.alignment = ParseAlignment(c, el.alignment, 1)]
              [] branch = "resize" ->
                    [el EXCEPT !.bounds = Resize(el.bounds, isCent, global, c)]
              [] branch = "center" ->
                    [el EXCEPT !.bounds =
                        Rectangle(Point(Value(c, 1), Value(c, 2)), Dimensions(el.bounds))]
              [] branch = "fromto" ->
                    [el EXCEPT !.bounds =
                        WithCorners(Point(Value(c, 1), Value(c, 2)),
                                    Point(Value(c, 4), Value(c, 5)))]
              [] branch = "from" ->
                    [el EXCEPT !.bounds = FromPoint(el.bounds, el.alignment, c)]
              [] branch = "pad" ->
                    [el EXCEPT !.padding = Point(Value(c, 1), Value(c, 2))]
              [] branch = "parseline" -> ParseLine(el, c).el
              [] OTHER -> el]

\* The body of the loop: st = [el, isCentered].
LoadLine(st, c, global) ==
    LoadLineOn(LoadBranch(st.el, c), st.el, st.isCentered, c, global)

\* isCentered on entry.
InitiallyCentered(global) == PNot(global)

RECURSIVE LoadLines(_, _, _, _)
LoadLines(st, kids, i, global) ==
    IF i > Len(kids) THEN st
    ELSE LoadLines(LoadLine(st, kids[i], global), kids, i + 1, global)

\* Element::Load as a whole.
ElementLoad(el, n, global) ==
    LoadLines([el |-> el, isCentered |-> InitiallyCentered(global)], n.kids, 1, global).el

----------------------------------------------------------------------------
\* The lines and alignments the model draws its inputs from.

Axis == {-1, 0, 1}
Alignments == {P(x, y) : x \in Axis, y \in Axis}

AlignLines ==
    {Line(<<Tok("align"), Tok("left")>>),
     Line(<<Tok("align"), Tok("left"), Tok("top")>>),
     Line(<<Tok("align"), Tok("top"), Tok("left")>>),
     Line(<<Tok("align"), Tok("left"), Tok("right")>>),
     Line(<<Tok("align"), Tok("middle"), Tok("bottom")>>)}
ResizeLines ==
    {Line(<<Tok("width"), Num(4)>>),
     Line(<<Tok("height"), Num(6)>>),
     Line(<<Tok("dimensions"), Num(2), Num(4)>>)}
CenterLines == {Line(<<Tok("center"), Num(1), Num(3)>>)}
FromToLines ==
    {Line(<<Tok("from"), Num(0), Num(2), Tok("to"), Num(4), Num(0)>>)}
FromLines ==
    {Line(<<Tok("from"), Num(3), Num(1)>>),
     Line(<<Tok("from"), Num(1), Num(1), Tok("by"), Num(4), Num(0)>>)}
PadLines == {Line(<<Tok("pad"), Num(1), Num(2)>>)}
OtherLines == {Line(<<Tok("dimensions"), Num(4)>>)}
Lines ==
    AlignLines \cup ResizeLines \cup CenterLines \cup FromToLines \cup FromLines
        \cup PadLines \cup OtherLines

NoLine == Line(<<Tok("")>>)

----------------------------------------------------------------------------
\* Element::Load, stepped line by line on one element. `child` is the line
\* the loop has just handled, `before` and `wasCentered` the element and
\* isCentered before that line.

LoadInit ==
    /\ globalAlignment \in Alignments
    /\ element = NewElement("element")
    /\ isCentered = InitiallyCentered(globalAlignment)
    /\ child = NoLine
    /\ before = element
    /\ wasCentered = isCentered
    /\ loadPc = "loop"
    /\ nLines = 0

LoadStep(branches) ==
    /\ nLines < MaxLines
    /\ \E c \in Lines :
        /\ LoadBranch(element, c) \in branches
        /\ \E st \in {LoadLine([el |-> element, isCentered |-> isCentered], c,
                               globalAlignment)} :
               /\ element' = st.el
               /\ isCentered' = st.isCentered
        /\ child' = c
    /\ before' = element
    /\ wasCentered' = isCentered
    /\ nLines' = nLines + 1
    /\ UNCHANGED <<globalAlignment, loadPc>>
    /\ UNCHANGED <<ifaceVars, drawVars, fnVars>>

LoadAlign ==
    /\ loadPc = "loop"
    /\ LoadStep({"align"})
LoadResize ==
    /\ loadPc = "loop"
    /\ LoadStep({"resize"})
LoadCenter ==
    /\ loadPc = "loop"
    /\ LoadStep({"center"})
LoadFromTo ==
    /\ loadPc = "loop"
    /\ LoadStep({"fromto"})
LoadFrom ==
    /\ loadPc = "loop"
    /\ LoadStep({"from"})
LoadPad ==
    /\ loadPc = "loop"
    /\ LoadStep({"pad"})
LoadParseLine ==
    /\ loadPc = "loop"
    /\ LoadStep({"parseline", "unrecognized"})

\* The loop ends: Load returns.
LoadReturn ==
    /\ loadPc = "loop"
    /\ loadPc' = "done"
    /\ UNCHANGED <<globalAlignment, element, isCentered, child, before, wasCentered, nLines>>
    /\ UNCHANGED <<ifaceVars, drawVars, fnVars>>

\* Load is called again on the same element (a named point defined twice).
LoadAgain ==
    /\ loadPc = "done"
    /\ nLines < MaxLines
    /\ loadPc' = "loop"
    /\ isCentered' = InitiallyCentered(globalAlignment)
    /\ wasCentered' = isCentered'
    /\ child' = NoLine
    /\ before' = element
    /\ UNCHANGED <<globalAlignment, element, nLines>>
    /\ UNCHANGED <<ifaceVars, drawVars, fnVars>>

\* A map without entries.
EmptyMap == [n \in {} |-> 0]

\* The parts of the state a specification does not use stay as they are here.
IfaceIdle ==
    /\ alignment = P0 /\ elements = <<>> /\ points = EmptyMap
    /\ visibleIf = "" /\ activeIf = ""
    /\ header = NoLine /\ log = <<>> /\ ifacePc = "idle"
DrawIdle ==
    /\ info = [conditions |-> {}] /\ mouse = P0 /\ panel = FALSE /\ drawIdx = 0
    /\ zones = <<>> /\ calls = <<>> /\ drawPc = "idle"
FnIdle == barIn = <<>> /\ barOut = <<>> /\ imgIn = <<>> /\ imgOut = <<>>
LoadIdle ==
    /\ globalAlignment = P0 /\ element = NewElement("element") /\ isCentered = TRUE
    /\ child = NoLine /\ before = element /\ wasCentered = TRUE /\ loadPc = "idle"
    /\ nLines = 0

LoadNext ==
    \/ LoadAlign \/ LoadResize \/ LoadCenter \/ LoadFromTo \/ LoadFrom \/ LoadPad
    \/ LoadParseLine \/ LoadReturn \/ LoadAgain

InitLoad == LoadInit /\ IfaceIdle /\ DrawIdle /\ FnIdle

SpecLoad == InitLoad /\ [][LoadNext]_vars

----------------------------------------------------------------------------
\* Properties of Element::Load (SpecLoad).

LastBranch == LoadBranch(before, child)

\* center + 0.5 * globalAlignment * dimension, on one axis.
AnchoredEdge(center, globalAxis, dimension) ==
    RAdd(center, RMul(Half, RMul(globalAxis, dimension)))

\* C1: a width/height/dimensions line handled while isCentered is false
\* leaves center + 0.5 * globalAlignment * dimension unchanged on every axis
\* it resizes: the left (top) edge stays for global left (top), the right
\* (bottom) edge for global right (bottom).
C1_ResizeKeepsAlignedEdge ==
    (LastBranch = "resize" /\ ~wasCentered) =>
        /\ HasWidth(child) =>
            /\ AnchoredEdge(Center(element.bounds).x, globalAlignment.x, Width(element.bounds))
                = AnchoredEdge(Center(before.bounds).x, globalAlignment.x, Width(before.bounds))
            /\ globalAlignment.x = RInt(-1) => Left(element.bounds) = Left(before.bounds)
            /\ globalAlignment.x = RInt(1) => Right(element.bounds) = Right(before.bounds)
            /\ Width(element.bounds) = Value(child, 1)
        /\ HasHeight(child) =>
            /\ AnchoredEdge(Center(element.bounds).y, globalAlignment.y, Height(element.bounds))
                = AnchoredEdge(Center(before.bounds).y, globalAlignment.y, Height(before.bounds))
            /\ globalAlignment.y = RInt(-1) => Top(element.bounds) = Top(before.bounds)
            /\ globalAlignment.y = RInt(1) => Bottom(element.bounds) = Bottom(before.bounds)

\* A width line has just changed a nonzero width of an element anchored to
\* the left, and the center has moved.
C1_Witness ==
    /\ LastBranch = "resize" /\ ~wasCentered /\ HasWidth(child)
    /\ globalAlignment.x = RInt(-1)
    /\ ~RIsZero(Width(before.bounds))
    /\ Width(before.bounds) # Width(element.bounds)
    /\ Center(before.bounds) # Center(element.bounds)

\* C2: isCentered, once true, stays true for the rest of the call, and a
\* width/height/dimensions line handled while it is true leaves the center
\* where it was, whatever the global alignment.
C2_CenteredResizeKeepsCenter ==
    /\ wasCentered => isCentered
    /\ (LastBranch = "resize" /\ wasCentered) =>
            Center(element.bounds) = Center(before.bounds)

\* A resize of an element of a non-centered interface after a `center` line
\* and a `pad` line: the dimensions change.
C2_Witness ==
    /\ LastBranch = "resize" /\ wasCentered
    /\ ~PNot(globalAlignment)
    /\ element.padding # P0
    /\ Dimensions(before.bounds) # Dimensions(element.bounds)

\* The index of the last token of line c among `keys`, or 0.
LastKeyword(c, keys) ==
    LET found == {i \in 1..(Size(c) - 1) : Token(c, i) \in keys}
    IN  IF found = {} THEN 0 ELSE CHOOSE i \in found : \A j \in found : j <= i

\* The value the tokens of line c describe for one axis: -1 or +1 by the last
\* keyword of the axis, `none` when the line has no keyword for it.
DescribedAxis(c, start, end, none) ==
    LET i == LastKeyword(c, {start, end})
    IN  IF i = 0 THEN none ELSE IF Token(c, i) = start THEN RInt(-1) ELSE RInt(1)

\* C6 as claimed: after an align line the alignment is what the tokens of
\* that line alone describe, 0 on an axis the line has no keyword for.
C6_AlignOverwrites ==
    LastBranch = "align" =>
        element.alignment =
            Point(DescribedAxis(child, "left", "right", Zero),
                  DescribedAxis(child, "top", "bottom", Zero))

\* C6, amended: on each axis the alignment after an align line is -1 or +1 by
\* the last keyword of that axis in the line, and the value it had before the
\* line when the line has no keyword for that axis.
C6_AlignSetsNamedAxes ==
    LastBranch = "align" =>
        element.alignment =
            Point(DescribedAxis(child, "left", "right", before.alignment.x),
                  DescribedAxis(child, "top", "bottom", before.alignment.y))

\* An align line without a keyword for the x axis, after an earlier align
\* line set that axis: the axis keeps its value.
C6_Witness ==
    /\ LastBranch = "align"
    /\ LastKeyword(child, {"left", "right"}) = 0
    /\ LastKeyword(child, {"top", "bottom"}) # 0
    /\ ~RIsZero(before.alignment.x)
    /\ element.alignment.x = before.alignment.x
    /\ element.alignment.y # before.alignment.y

\* C7: after `from <x> <y>` without `to` the dimensions are as before and the
\* point is on the left (top) edge for alignment -1, on the right (bottom)
\* edge for +1 and at the center for 0.
C7_FromAnchorsAlignedCorner ==
    LastBranch = "from" =>
        LET b == element.bounds
            a == before.alignment
            x == Value(child, 1)
            y == Value(child, 2)
        IN  /\ Dimensions(b) = Dimensions(before.bounds)
            /\ a.x = RInt(-1) => Left(b) = x
            /\ a.x = RInt(1) => Right(b) = x
            /\ a.x = Zero => Center(b).x = x
            /\ a.y = RInt(-1) => Top(b) = y
            /\ a.y = RInt(1) => Bottom(b) = y
            /\ a.y = Zero => Center(b).y = y

\* A `from` line on an element with a width that is aligned left: the point
\* is on the left edge, not at the center.
C7_Witness ==
    /\ LastBranch = "from"
    /\ before.alignment.x = RInt(-1)
    /\ ~RIsZero(Width(element.bounds))
    /\ Left(element.bounds) = Value(child, 1)
    /\ Center(element.bounds).x # Value(child, 1)

----------------------------------------------------------------------------
\* The element constructors.

\* std::string::front(): the first character. On an empty string the call is
\* undefined; `ub` stands for whatever it then yields ("" is the NUL character).
Chars == {"B", "s"}
Rests == {"", "uy", "ell"}
Front(str, ub) ==
    IF str = "" THEN ub
    ELSE CHOOSE c \in Chars : \E r \in Rests : c \o r = str
FrontOutcomes == Chars \cup {""}

\* c, or d when c is null.
OrElse(c, d) == IF c = NullPtr THEN d ELSE c

\* Fill in any undefined state sprites.
ImageFillSprites(el) ==
    IF At(el.sprite, ACTIVE) # NullPtr
    THEN [el EXCEPT !.sprite =
            <<OrElse(At(el.sprite, INACTIVE), At(el.sprite, ACTIVE)),
              At(el.sprite, ACTIVE),
              OrElse(At(el.sprite, HOVER), At(el.sprite, ACTIVE))>>]
    ELSE el

ImageElement(n, global) ==
    IF Size(n) < 2 THEN NewElement("image")
    ELSE ImageFillSprites(
            ElementLoad(
                IF Token(n, 0) = "sprite"
                THEN [NewElement("image") EXCEPT
                        !.isOutline = (Token(n, 0) = "outline"),
                        !.sprite = Put(@, ACTIVE, SpriteSetGet(Token(n, 1)))]
                ELSE [NewElement("image") EXCEPT
                        !.isOutline = (Token(n, 0) = "outline"),
                        !.name = Token(n, 1)],
                n, global))

\* A variant of TextElement's button key with a slip: the key of a button is
\* taken from its label.
ButtonKeyFromLabel(n, ub) ==
    IF Token(n, 0) = "button"
    THEN Front(IF Size(n) >= 3 THEN Token(n, 2) ELSE Token(n, 1), ub)
    ELSE ""

\* The key a text element gets: the first character of a button's name.
ButtonKey(n, ub) ==
    IF Token(n, 0) = "button" THEN Front(Token(n, 1), ub) ELSE ""

\* Labels are "medium" and strings "bright" by default.
TextDefaultColor(el) ==
    IF At(el.color, ACTIVE) = NullPtr /\ el.buttonKey = ""
    THEN [el EXCEPT !.color =
            Put(@, ACTIVE, ColorsGet(IF el.isDynamic THEN "bright" ELSE "medium"))]
    ELSE el

\* Fill in any undefined state colors.
TextFillColors(el) ==
    IF At(el.color, ACTIVE) = NullPtr
    THEN [el EXCEPT !.color =
            <<OrElse(At(el.color, INACTIVE), ColorsGet("inactive")),
              ColorsGet("active"),
              OrElse(At(el.color, HOVER), ColorsGet("hover"))>>]
    ELSE [el EXCEPT !.color =
            <<OrElse(At(el.color, INACTIVE), At(el.color, ACTIVE)),
              At(el.color, ACTIVE),
              OrElse(At(el.color, HOVER), At(el.color, ACTIVE))>>]

TextElement(n, global, ub) ==
    IF Size(n) < 2 THEN NewElement("text")
    ELSE TextFillColors(TextDefaultColor(
            ElementLoad(
                [NewElement("text") EXCEPT
                    !.isDynamic = (Token(n, 0) = "string"),
                    !.buttonKey = ButtonKey(n, ub),
                    !.str = IF Token(n, 0) = "button"
                            THEN (IF Size(n) >= 3 THEN Token(n, 2) ELSE "")
                            ELSE Token(n, 1)],
                n, global)))

\* Fill in a default color if none is specified.
BarDefaultColor(el) ==
    IF el.barColor = NullPtr THEN [el EXCEPT !.barColor = ColorsGet("active")] ELSE el

BarElement(n, global) ==
    IF Size(n) < 2 THEN NewElement("bar")
    ELSE BarDefaultColor(
            ElementLoad(
                [NewElement("bar") EXCEPT
                    !.name = Token(n, 1), !.isRing = (Token(n, 0) = "ring")],
                n, global))

SetConditions(el, visible, active) ==
    [el EXCEPT !.visibleIf = visible, !.activeIf = active]

----------------------------------------------------------------------------
\* Interface::Load. An interface is [alignment, elements, points]; the loop
\* over the children also carries visibleIf and activeIf.

ImageKeys == {"sprite", "image", "outline"}
TextKeys == {"label", "string", "button"}
BarKeys == {"bar", "ring"}

\* The branch of the loop body that a child takes.
ChildBranch(c) ==
    IF Token(c, 0) \in {"point", "box"} /\ Size(c) >= 2 THEN "point"
    ELSE IF Token(c, 0) \in {"visible", "active"} THEN "condition"
    ELSE IF Token(c, 0) \in ImageKeys THEN "image"
    ELSE IF Token(c, 0) \in TextKeys THEN "text"
    ELSE IF Token(c, 0) \in BarKeys THEN "bar"
    ELSE "unrecognized"

\* A variant of PointToLoad: every block loads a new element.
PointToLoadFresh(pts, name) == NewElement("element")

\* points[name]: the point of that name, made on first use.
PointToLoad(pts, name) ==
    IF name \in DOMAIN pts THEN pts[name] ELSE NewElement("element")

MapPut(map, key, value) ==
    [k \in DOMAIN map \cup {key} |-> IF k = key THEN value ELSE map[k]]

\* A variant of ConditionName with a slip: a line without `if` keeps the
\* condition in force.
ConditionNameKeep(c, old) ==
    IF Size(c) >= 3 /\ Token(c, 1) = "if" THEN Token(c, 2) ELSE old

\* The condition a `visible` or `active` line puts in force.
ConditionName(c, old) ==
    IF Size(c) >= 3 /\ Token(c, 1) = "if" THEN Token(c, 2) ELSE ""

\* The body of the loop on its branch: st = [alignment, elements, points,
\* visibleIf, activeIf].
LoadChildOn(branch, st, c, ub) ==
    CASE branch = "point" ->
            [st EXCEPT !.points =
                MapPut(@, Token(c, 1),
                       ElementLoad(PointToLoad(@, Token(c, 1)), c, st.alignment))]
      [] branch = "condition" ->
            IF Token(c, 0) = "visible"
            THEN [st EXCEPT !.visibleIf = ConditionName(c, @)]
            ELSE [st EXCEPT !.activeIf = ConditionName(c, @)]
      [] branch = "image" ->
            [st EXCEPT !.elements =
                Append(@, SetConditions(ImageElement(c, st.alignment),
                                        st.visibleIf, st.activeIf))]
      [] branch = "text" ->
            [st EXCEPT !.elements =
                Append(@, SetConditions(TextElement(c, st.alignment, ub),
                                        st.visibleIf, st.activeIf))]
      [] branch = "bar" ->
            [st EXCEPT !.elements =
                Append(@, SetConditions(BarElement(c, st.alignment),
                                        st.visibleIf, st.activeIf))]
      [] OTHER -> st

LoadChild(st, c, ub) == LoadChildOn(ChildBranch(c), st, c, ub)

RECURSIVE LoadChildren(_, _, _, _)
LoadChildren(st, kids, i, ub) ==
    IF i > Len(kids) THEN st
    ELSE LoadChildren(LoadChild(st, kids[i], ub), kids, i + 1, ub)

\* Interface::Load as a whole, on an interface `face`.
Interface(st) ==
    [alignment |-> st.alignment, elements |-> st.elements, points |-> st.points]

InterfaceLoad(face, n, ub) ==
    IF Size(n) < 2 THEN face
    ELSE Interface(LoadChildren(
            [alignment |-> ParseAlignment(n, face.alignment, 2),
             elements |-> face.elements, points |-> face.points,
             visibleIf |-> "", activeIf |-> ""],
            n.kids, 1, ub))

NewInterface == [alignment |-> P0, elements |-> <<>>, points |-> EmptyMap]

----------------------------------------------------------------------------
\* The interface nodes and children the model draws its inputs from.

Headers ==
    {Line(<<Tok("interface")>>),
     Line(<<Tok("interface"), Tok("hud")>>),
     Line(<<Tok("interface"), Tok("hud"), Tok("bottom"), Tok("right")>>)}

PointChildren ==
    {Node(<<Tok("point"), Tok("a")>>, <<Line(<<Tok("dimensions"), Num(4), Num(2)>>)>>),
     Node(<<Tok("box"), Tok("a")>>,
          <<Line(<<Tok("align"), Tok("left")>>), Line(<<Tok("from"), Num(3), Num(1)>>),
            Line(<<Tok("pad"), Num(1), Num(2)>>)>>)}
ConditionChildren ==
    {Line(<<Tok("visible"), Tok("if"), Tok("c")>>),
     Line(<<Tok("visible")>>),
     Line(<<Tok("active"), Tok("if"), Tok("d")>>),
     Line(<<Tok("active"), Tok("unless"), Tok("d")>>)}
BuyButton ==
    Node(<<Tok("button"), Tok("Buy"), Tok("sell")>>,
         <<Line(<<Tok("from"), Num(0), Num(0), Tok("to"), Num(4), Num(2)>>)>>)
NamelessButton == Line(<<Tok("button")>>)
EmptyNameButton == Line(<<Tok("button"), Tok("")>>)
CreditsString ==
    Node(<<Tok("string"), Tok("credits")>>,
         <<Line(<<Tok("width"), Num(4)>>), Line(<<Tok("color"), Tok("dim")>>)>>)
IconSprite ==
    Node(<<Tok("sprite"), Tok("icon")>>,
         <<Line(<<Tok("width"), Num(64)>>), Line(<<Tok("inactive"), Tok("grey")>>)>>)
FuelBar ==
    Node(<<Tok("bar"), Tok("fuel")>>,
         <<Line(<<Tok("dimensions"), Num(0), Num(4)>>), Line(<<Tok("size"), Num(1)>>)>>)
UnrecognizedChildren == {Line(<<Tok("point")>>)}
Children ==
    PointChildren \cup ConditionChildren \cup UnrecognizedChildren
        \cup {BuyButton, NamelessButton, CreditsString, IconSprite, FuelBar}

\* What front() may yield for the name of child c.
UbOutcomes(c) ==
    IF Token(c, 0) = "button" /\ Size(c) >= 2 /\ Token(c, 1) = ""
    THEN FrontOutcomes ELSE {""}

----------------------------------------------------------------------------
\* Interface::Load, stepped child by child. `log` is the sequence of the
\* children handled so far.

IfaceInit ==
    /\ alignment = NewInterface.alignment
    /\ elements = NewInterface.elements
    /\ points = NewInterface.points
    /\ visibleIf = "" /\ activeIf = ""
    /\ header = NoLine /\ log = <<>>
    /\ ifacePc = "idle"

\* Entry: an unnamed interface is skipped, otherwise the alignment is parsed.
IfaceBegin ==
    /\ ifacePc = "idle"
    /\ \E h \in Headers :
        /\ header' = h
        /\ IF Size(h) < 2
           THEN /\ ifacePc' = "done"
                /\ UNCHANGED alignment
           ELSE /\ ifacePc' = "children"
                /\ alignment' = ParseAlignment(h, alignment, 2)
    /\ visibleIf' = "" /\ activeIf' = ""
    /\ UNCHANGED <<elements, points, log>>
    /\ UNCHANGED <<loadVars, drawVars, fnVars>>

IfaceStep(branches) ==
    /\ Len(log) < MaxChildren
    /\ \E c \in Children : \E ub \in UbOutcomes(c) :
        /\ ChildBranch(c) \in branches
        /\ \E st \in {LoadChild([alignment |-> alignment, elements |-> elements,
                                 points |-> points, visibleIf |-> visibleIf,
                                 activeIf |-> activeIf], c, ub)} :
               /\ elements' = st.elements
               /\ points' = st.points
               /\ visibleIf' = st.visibleIf
               /\ activeIf' = st.activeIf
        /\ log' = Append(log, c)
    /\ UNCHANGED <<alignment, header, ifacePc>>
    /\ UNCHANGED <<loadVars, drawVars, fnVars>>

IfacePoint ==
    /\ ifacePc = "children"
    /\ IfaceStep({"point"})
IfaceCondition ==
    /\ ifacePc = "children"
    /\ IfaceStep({"condition"})
IfaceImage ==
    /\ ifacePc = "children"
    /\ IfaceStep({"image"})
IfaceText ==
    /\ ifacePc = "children"
    /\ IfaceStep({"text"})
IfaceBar ==
    /\ ifacePc = "children"
    /\ IfaceStep({"bar"})
IfaceUnrecognized ==
    /\ ifacePc = "children"
    /\ IfaceStep({"unrecognized"})

IfaceReturn ==
    /\ ifacePc = "children"
    /\ ifacePc' = "done"
    /\ UNCHANGED <<alignment, elements, points, visibleIf, activeIf, header, log>>
    /\ UNCHANGED <<loadVars, drawVars, fnVars>>

IfaceNext ==
    \/ IfaceBegin \/ IfacePoint \/ IfaceCondition \/ IfaceImage \/ IfaceText
    \/ IfaceBar \/ IfaceUnrecognized \/ IfaceReturn

InitInterface == IfaceInit /\ LoadIdle /\ DrawIdle /\ FnIdle

SpecInterface == InitInterface /\ [][IfaceNext]_vars

----------------------------------------------------------------------------
\* The queries on named points.

ScreenDimensions == P(8, 6)
Anchor(align) == PScale(Half, PMul(ScreenDimensions, align))
HasPoint(pts, name) == name \in DOMAIN pts
GetPoint(pts, align, name) ==
    IF name \notin DOMAIN pts THEN P0
    ELSE PAdd(Center(pts[name].bounds), Anchor(align))
GetSize(pts, name) ==
    IF name \notin DOMAIN pts THEN P0 ELSE Dimensions(pts[name].bounds)
GetBox(pts, align, name) ==
    IF name \notin DOMAIN pts THEN Rectangle(P0, P0)
    ELSE RectPlus(pts[name].bounds, Anchor(align))

----------------------------------------------------------------------------
\* Properties of Interface::Load (SpecInterface).

Geometry(el) == <<el.bounds, el.alignment, el.padding>>

\* The places in the log of the children that add an element, and of the
\* blocks that define the point `name`.
ElementPlaces == {j \in 1..Len(log) : ChildBranch(log[j]) \in {"image", "text", "bar"}}
BlockPlaces(name) ==
    {j \in 1..Len(log) : ChildBranch(log[j]) = "point" /\ Token(log[j], 1) = name}
PlaceOfElement(i) ==
    CHOOSE j \in ElementPlaces : Cardinality({k \in ElementPlaces : k <= j}) = i
Last(places) == CHOOSE j \in places : \A k \in places : k <= j

\* The geometry a block resolves to from a new element.
FreshGeometry(block) ==
    Geometry(ElementLoad(NewElement("element"), block, alignment))

\* The geometry the blocks at `places`, taken in order from place i on,
\* resolve to when each continues from what the one before left.
RECURSIVE ChainedGeometry(_, _, _)
ChainedGeometry(el, places, i) ==
    IF i > Len(log) THEN Geometry(el)
    ELSE IF i \in places
    THEN ChainedGeometry(ElementLoad(el, log[i], alignment), places, i + 1)
    ELSE ChainedGeometry(el, places, i + 1)

ElementsStartFresh ==
    /\ Len(elements) = Cardinality(ElementPlaces)
    /\ \A i \in 1..Len(elements) :
        Geometry(elements[i]) = FreshGeometry(log[PlaceOfElement(i)])

\* C9 as claimed: every element and every point/box block, also one whose
\* name an earlier block defined, is resolved from bounds of zero size at the
\* origin, alignment (0,0) and no padding, so that the box of a named point
\* is that of its last block alone.
C9_EveryBlockStartsFresh ==
    /\ ElementsStartFresh
    /\ \A name \in DOMAIN points :
        /\ Geometry(points[name]) = FreshGeometry(log[Last(BlockPlaces(name))])
        /\ GetBox(points, alignment, name) =
            RectPlus(FreshGeometry(log[Last(BlockPlaces(name))])[1], Anchor(alignment))

\* C9, amended: every element, and every point/box block whose name no
\* earlier block defined, is resolved from bounds of zero size at the origin,
\* alignment (0,0) and no padding; a block that defines a name again
\* continues from the bounds, alignment and padding the earlier blocks left,
\* so that the box of a named point is that of all its blocks in order.
C9_BlocksOfANameChain ==
    /\ ElementsStartFresh
    /\ DOMAIN points = {Token(log[j], 1) : j \in {k \in 1..Len(log) : ChildBranch(log[k]) = "point"}}
    /\ \A name \in DOMAIN points :
        /\ Cardinality(BlockPlaces(name)) = 1 =>
                Geometry(points[name]) = FreshGeometry(log[Last(BlockPlaces(name))])
        /\ Geometry(points[name]) =
                ChainedGeometry(NewElement("element"), BlockPlaces(name), 1)
        /\ GetBox(points, alignment, name) =
                RectPlus(ChainedGeometry(NewElement("element"), BlockPlaces(name), 1)[1],
                         Anchor(alignment))

\* A point defined by two blocks whose box is not that of its last block,
\* next to an element.
C9_Witness ==
    /\ elements # <<>>
    /\ \E name \in DOMAIN points :
        /\ Cardinality(BlockPlaces(name)) = 2
        /\ GetBox(points, alignment, name) #
            RectPlus(FreshGeometry(log[Last(BlockPlaces(name))])[1], Anchor(alignment))

\* The condition in force at place j of the log: the name of the last
\* `visible` (`active`) child before j, "" if there is none or it has no `if`.
ConditionBefore(j, key) ==
    LET prior == {k \in 1..(j - 1) : Token(log[k], 0) = key}
        k == Last(prior)
    IN  IF prior = {} THEN ""
        ELSE IF Size(log[k]) >= 3 /\ Token(log[k], 1) = "if" THEN Token(log[k], 2)
        ELSE ""

\* C10: each element of the list has the visibility and the activation
\* condition in force at its place, each tracked on its own; points and
\* unrecognized children add no element and points have no conditions.
C10_ElementsCarryConditionsInForce ==
    /\ Len(elements) = Cardinality(ElementPlaces)
    /\ \A i \in 1..Len(elements) :
        /\ elements[i].visibleIf = ConditionBefore(PlaceOfElement(i), "visible")
        /\ elements[i].activeIf = ConditionBefore(PlaceOfElement(i), "active")
    /\ \A name \in DOMAIN points :
        points[name].visibleIf = "" /\ points[name].activeIf = ""
    /\ visibleIf = ConditionBefore(Len(log) + 1, "visible")
    /\ activeIf = ConditionBefore(Len(log) + 1, "active")

\* An element added after an `active if d` that a later `active` line
\* without `if` has cancelled.
C10_Witness ==
    /\ Len(log) = 3
    /\ Token(log[1], 0) = "active" /\ Size(log[1]) >= 3 /\ Token(log[1], 1) = "if"
    /\ Token(log[2], 0) = "active" /\ Token(log[2], 1) # "if"
    /\ Len(elements) = 1
    /\ elements[1].activeIf = ""

----------------------------------------------------------------------------
\* What the draw pass reads from outside: the Information object, the sprites
\* and the font.

HasCondition(inf, name) == name = "" \/ name \in inf.conditions

\* Sprite::Width and Sprite::Height of a sprite handle.
SpriteSizes ==
    [name \in {"icon", "grey", "ship", "dot", "tall"} |->
        CASE name = "icon" -> P(32, 16)
          [] name = "grey" -> P(32, 16)
          [] name = "ship" -> P(4, 2)
          [] name = "dot" -> P(1, 1)
          [] OTHER -> P(16, 32)]
SpriteSize(sprite) ==
    IF sprite # NullPtr /\ sprite[1] \in DOMAIN SpriteSizes THEN SpriteSizes[sprite[1]] ELSE P0

\* Information::GetSprite, GetString, BarValue and BarSegments.
InfoGetSprite(inf, name) ==
    IF name \in {"ship", "dot"} THEN SpriteSetGet(name) ELSE NullPtr
InfoGetString(inf, name) == IF name = "credits" THEN "1,000" ELSE ""
InfoBarValue(inf, name) == IF name = "fuel" THEN Half ELSE Zero
InfoBarSegments(inf, name) == IF name = "fuel" THEN RInt(2) ELSE Zero

\* Font::Width and Font::Height.
FontWidth(fontSize, text) == RInt(Len(text) * (fontSize \div 2))
FontHeight(fontSize) == RInt(fontSize)

----------------------------------------------------------------------------
\* ImageElement: GetSprite, NativeDimensions and Draw.

GetSprite(el, inf, state) ==
    IF el.name = "" THEN At(el.sprite, state) ELSE InfoGetSprite(inf, el.name)

\* min(xScale, yScale): an axis of size zero counts as a scale of 1000.
FitScale(dimensions, size) ==
    LET xScale == IF RIsZero(dimensions.x) THEN RInt(1000) ELSE RDiv(dimensions.x, size.x)
        yScale == IF RIsZero(dimensions.y) THEN RInt(1000) ELSE RDiv(dimensions.y, size.y)
    IN  RMin(xScale, yScale)

SpriteNativeDimensions(bounds, size) ==
    IF RIsZero(size.x) \/ RIsZero(size.y) THEN P0
    ELSE IF PNot(Dimensions(bounds)) THEN size
    ELSE PScale(FitScale(Dimensions(bounds), size), size)

ImageNativeDimensions(el, inf, state) ==
    SpriteNativeDimensions(el.bounds, SpriteSize(GetSprite(el, inf, state)))

\* The shader calls of ImageElement::Draw.
ImageDrawSprite(el, sprite, rect) ==
    IF sprite = NullPtr \/ RIsZero(SpriteSize(sprite).x) \/ RIsZero(SpriteSize(sprite).y)
    THEN <<>>
    ELSE IF el.isOutline
    THEN <<[op |-> "outline", sprite |-> sprite, center |-> Center(rect),
            dimensions |-> Dimensions(rect), colored |-> el.isColored]>>
    ELSE <<[op |-> "sprite", sprite |-> sprite, center |-> Center(rect),
            zoom |-> RDiv(Width(rect), SpriteSize(sprite).x)]>>

ImageDraw(el, rect, inf, state) == ImageDrawSprite(el, GetSprite(el, inf, state), rect)

----------------------------------------------------------------------------
\* TextElement: GetString, NativeDimensions, Draw and Place.

GetString(el, inf) == IF el.isDynamic THEN InfoGetString(inf, el.str) ELSE el.str

TextNativeDimensions(el, inf, state) ==
    Point(FontWidth(el.fontSize, GetString(el, inf)), FontHeight(el.fontSize))

TextDraw(el, rect, inf, state) ==
    IF At(el.color, state) = NullPtr THEN <<>>
    ELSE <<[op |-> "text", text |-> GetString(el, inf), at |-> TopLeft(rect),
            color |-> At(el.color, state)]>>

\* The zones TextElement::Place adds.
TextPlace(el, box, hasPanel) ==
    IF el.buttonKey # "" /\ hasPanel THEN <<[bounds |-> box, key |-> el.buttonKey]>>
    ELSE <<>>

----------------------------------------------------------------------------
\* Natural numbers of any size, as sequences of digits in base 2^15 with the
\* lowest digit first and no leading zero digit; <<>> is 0. They carry the
\* 53-bit significands of doubles.

Base == 2^15
BLimb(a, i) == IF i <= Len(a) THEN a[i] ELSE 0

RECURSIVE BTrim(_)
BTrim(a) ==
    IF a = <<>> \/ a[Len(a)] # 0 THEN a ELSE BTrim(SubSeq(a, 1, Len(a) - 1))

RECURSIVE BOfInt(_)
BOfInt(n) == IF n = 0 THEN <<>> ELSE <<n % Base>> \o BOfInt(n \div Base)

RECURSIVE BAddFrom(_, _, _, _)
BAddFrom(a, b, i, carry) ==
    IF i > Len(a) /\ i > Len(b) THEN BOfInt(carry)
    ELSE <<(BLimb(a, i) + BLimb(b, i) + carry) % Base>>
         \o BAddFrom(a, b, i + 1, (BLimb(a, i) + BLimb(b, i) + carry) \div Base)
BAdd(a, b) == BAddFrom(a, b, 1, 0)

\* a - b for a >= b.
RECURSIVE BSubFrom(_, _, _, _)
BSubFrom(a, b, i, borrow) ==
    IF i > Len(a) THEN <<>>
    ELSE IF a[i] - BLimb(b, i) - borrow < 0
    THEN <<a[i] - BLimb(b, i) - borrow + Base>> \o BSubFrom(a, b, i + 1, 1)
    ELSE <<a[i] - BLimb(b, i) - borrow>> \o BSubFrom(a, b, i + 1, 0)
BSub(a, b) == BTrim(BSubFrom(a, b, 1, 0))

RECURSIVE BLessFrom(_, _, _)
BLessFrom(a, b, i) ==
    IF i = 0 THEN FALSE
    ELSE IF a[i] # b[i] THEN a[i] < b[i]
    ELSE BLessFrom(a, b, i - 1)
BLess(a, b) ==
    IF Len(a) # Len(b) THEN Len(a) < Len(b) ELSE BLessFrom(a, b, Len(a))

\* a * k for a digit k.
RECURSIVE BMulSmallFrom(_, _, _, _)
BMulSmallFrom(a, k, i, carry) ==
    IF i > Len(a) THEN BOfInt(carry)
    ELSE <<(a[i] * k + carry) % Base>>
         \o BMulSmallFrom(a, k, i + 1, (a[i] * k + carry) \div Base)
BMulSmall(a, k) == IF k = 0 THEN <<>> ELSE BMulSmallFrom(a, k, 1, 0)

RECURSIVE BMulFrom(_, _, _)
BMulFrom(a, b, j) ==
    IF j > Len(b) THEN <<>>
    ELSE BTrim(BAdd(BMulSmall(a, b[j]), <<0>> \o BMulFrom(a, b, j + 1)))
BMul(a, b) == IF a = <<>> THEN <<>> ELSE BMulFrom(a, b, 1)

\* The quotient of a by a digit k > 0, from the digit i down.
RECURSIVE BDivSmallFrom(_, _, _, _)
BDivSmallFrom(a, k, i, rest) ==
    IF i = 0 THEN <<>>
    ELSE BDivSmallFrom(a, k, i - 1, (rest * Base + a[i]) % k)
         \o <<(rest * Base + a[i]) \div k>>
BDivSmall(a, k) == BTrim(BDivSmallFrom(a, k, Len(a), 0))

\* a * 2^k and the whole part of a / 2^k.
BShl(a, k) ==
    IF a = <<>> THEN <<>>
    ELSE [i \in 1..(k \div 15) |-> 0] \o BMulSmall(a, 2^(k % 15))
BShr(a, k) ==
    IF k \div 15 >= Len(a) THEN <<>>
    ELSE BDivSmall(SubSeq(a, (k \div 15) + 1, Len(a)), 2^(k % 15))

RECURSIVE BitLen(_)
BitLen(n) == IF n = 0 THEN 0 ELSE 1 + BitLen(n \div 2)
BBitLen(a) == IF a = <<>> THEN 0 ELSE 15 * (Len(a) - 1) + BitLen(a[Len(a)])
BOdd(a) == a # <<>> /\ a[1] % 2 = 1

----------------------------------------------------------------------------
\* double: IEEE 754 binary64, rounding to nearest, ties to even. A finite
\* double is [neg, m, e], standing for (-1)^neg * m * 2^e with m = 0 or
\* 2^52 <= m < 2^53. Zero has no sign here, and exponents are not limited:
\* the values of the bar computation are far from overflow and underflow.

DZero == [neg |-> FALSE, m |-> <<>>, e |-> 0]
Double(neg, m, e) == [neg |-> neg, m |-> m, e |-> e]

\* q * 2^e where q came out of rounding and may have reached 2^53.
Renormalized(neg, q, e) ==
    IF BBitLen(q) > 53 THEN Double(neg, BShr(q, 1), e + 1) ELSE Double(neg, q, e)

\* Round q + rest / (2 * half) to a whole number, `sticky` telling that
\* more was cut off below rest.
RoundedUp(neg, q, rest, half, e, sticky) ==
    IF BLess(half, rest) \/ (rest = half /\ (sticky \/ BOdd(q)))
    THEN Renormalized(neg, BAdd(q, <<1>>), e)
    ELSE Double(neg, q, e)

\* The double nearest to m * 2^e (a little more when sticky).
Rounded(neg, m, e, sticky) ==
    IF m = <<>> THEN DZero
    ELSE IF BBitLen(m) <= 53
    THEN Double(neg, BShl(m, 53 - BBitLen(m)), e - (53 - BBitLen(m)))
    ELSE RoundedUp(neg, BShr(m, BBitLen(m) - 53),
                   BSub(m, BShl(BShr(m, BBitLen(m) - 53), BBitLen(m) - 53)),
                   BShl(<<1>>, BBitLen(m) - 54), e + (BBitLen(m) - 53), sticky)

DOfInt(i) == Rounded(i < 0, BOfInt(Abs(i)), 0, FALSE)
DOne == DOfInt(1)
DNeg(x) == IF x.m = <<>> THEN x ELSE Double(~x.neg, x.m, x.e)

\* x + y from the significands brought to the exponent e.
DAddAligned(xneg, xm, yneg, ym, e) ==
    IF xneg = yneg THEN Rounded(xneg, BAdd(xm, ym), e, FALSE)
    ELSE IF BLess(xm, ym) THEN Rounded(yneg, BSub(ym, xm), e, FALSE)
    ELSE Rounded(xneg, BSub(xm, ym), e, FALSE)
DAdd(x, y) ==
    IF x.m = <<>> THEN y
    ELSE IF y.m = <<>> THEN x
    ELSE IF x.e <= y.e
    THEN DAddAligned(x.neg, x.m, y.neg, BShl(y.m, y.e - x.e), x.e)
    ELSE DAddAligned(x.neg, BShl(x.m, x.e - y.e), y.neg, y.m, y.e)
DSub(x, y) == DAdd(x, DNeg(y))
DMul(x, y) == Rounded(x.neg # y.neg, BMul(x.m, y.m), x.e + y.e, FALSE)

\* One more bit of the quotient q of a division by d that has left rest.
DivisionStep(q, rest, d) ==
    IF BLess(rest, d) THEN [q |-> q, rest |-> rest]
    ELSE [q |-> BAdd(q, <<1>>), rest |-> BSub(rest, d)]
\* k > 0 more bits: `division` is the quotient so far and what is left.
RECURSIVE LongDivision(_, _, _)
LongDivision(division, d, k) ==
    IF division.rest = <<>> THEN [q |-> BShl(division.q, k), rest |-> <<>>]
    ELSE IF k = 1
    THEN DivisionStep(BAdd(division.q, division.q),
                      BAdd(division.rest, division.rest), d)
    ELSE LongDivision(LongDivision(division, d, k \div 2), d, k - (k \div 2))
DDivRounded(neg, division, e) ==
    Rounded(neg, division.q, e, division.rest # <<>>)
\* x / y for y other than zero.
DDiv(x, y) ==
    IF x.m = <<>> THEN DZero
    ELSE DDivRounded(x.neg # y.neg,
                     LongDivision(DivisionStep(<<>>, x.m, y.m), y.m, 55),
                     x.e - y.e - 55)

DLessMagnitude(x, y) ==
    IF x.m = <<>> THEN y.m # <<>>
    ELSE IF y.m = <<>> THEN FALSE
    ELSE IF x.e # y.e THEN x.e < y.e
    ELSE BLess(x.m, y.m)
DLt(x, y) ==
    IF x.neg /\ ~y.neg THEN x.m # <<>> \/ y.m # <<>>
    ELSE IF ~x.neg /\ y.neg THEN FALSE
    ELSE IF x.neg THEN DLessMagnitude(y, x)
    ELSE DLessMagnitude(x, y)

\* The double nearest to the fraction n / d.
DOfR(r) == DDiv(DOfInt(r.n), DOfInt(r.d))

----------------------------------------------------------------------------
\* The numbers of the bar computation: each is the double d the code holds
\* together with the exact number q that double stands for. Tests and
\* comparisons are those of the doubles; the end points of the lines drawn
\* are given by the exact numbers, which the doubles of the code match to
\* within rounding.

Approx(q) == [q |-> q, d |-> DOfR(q)]
AZero == [q |-> Zero, d |-> DZero]
AOne == [q |-> One, d |-> DOne]
AAdd(a, b) == [q |-> RAdd(a.q, b.q), d |-> DAdd(a.d, b.d)]
ASub(a, b) == [q |-> RSub(a.q, b.q), d |-> DSub(a.d, b.d)]
AMul(a, b) == [q |-> RMul(a.q, b.q), d |-> DMul(a.d, b.d)]
ADiv(a, b) == [q |-> RDiv(a.q, b.q), d |-> DDiv(a.d, b.d)]
ALt(a, b) == DLt(a.d, b.d)
AMin(a, b) == IF ALt(b, a) THEN b ELSE a

----------------------------------------------------------------------------
\* BarElement::Draw.

\* Point::Length for the vectors whose length is a whole number.
ISqrt(m) == CHOOSE k \in 0..m : k * k = m
RSqrt(r) == R(ISqrt(r.n), ISqrt(r.d))
Length(p) == RSqrt(RAdd(RMul(p.x, p.x), RMul(p.y, p.y)))

\* The value of a double that is not a number, and a point made of them.
NaN == [n |-> 0, d |-> 0]
NaNPoint == Point(NaN, NaN)

LineDraw(from, to, width, color) ==
    [op |-> "line", from |-> from, to |-> to, width |-> width, color |-> color]

\* A variant of BarLines with a slip: the gap is skipped, so that the lines
\* are drawn end to end.
RECURSIVE BarLinesNoGap(_, _, _, _, _, _, _, _)
BarLinesNoGap(v, value, start, dimensions, filled, empty, width, color) ==
    IF ~ALt(v, value) THEN <<>>
    ELSE <<LineDraw(PAdd(start, PScale(v.q, dimensions)),
                    PAdd(start, PScale(AMin(AAdd(v, filled), value).q, dimensions)),
                    width, color)>>
         \o BarLinesNoGap(AAdd(v, filled), value, start, dimensions,
                          filled, empty, width, color)

\* The loop "while(v < value)": one line per turn. The sum v is rounded at
\* every addition, so that a v which would equal value exactly may stay
\* below it and give one more turn.
RECURSIVE BarLines(_, _, _, _, _, _, _, _)
BarLines(v, value, start, dimensions, filled, empty, width, color) ==
    IF ~ALt(v, value) THEN <<>>
    ELSE <<LineDraw(PAdd(start, PScale(v.q, dimensions)),
                    PAdd(start, PScale(AMin(AAdd(v, filled), value).q, dimensions)),
                    width, color)>>
         \o BarLines(AAdd(AAdd(v, filled), empty), value, start, dimensions,
                     filled, empty, width, color)

\* "(1. - empty * (segments - 1.)) / segments"
Filled(empty, segments) ==
    ADiv(ASub(AOne, AMul(empty, ASub(segments, AOne))), segments)

\* The loop with segments and a length of zero. The loop is not entered
\* when value is not above zero. With a width above zero, empty is +infinity
\* and filled -infinity: the first turn draws a line from start to a point
\* that is not a number and leaves v not a number, which ends the loop. With
\* a width below zero, empty is -infinity and filled +infinity: the line
\* ends where it starts, and v is again left not a number.
BarOfNoLength(start, width, value, color) ==
    IF ~RLt(Zero, value) THEN <<>>
    ELSE IF RLt(Zero, width) THEN <<LineDraw(start, NaNPoint, width, color)>>
    ELSE <<LineDraw(start, start, width, color)>>

\* The bar branch.
BarSegmented(start, dimensions, length, width, value, segments, color) ==
    IF RIsZero(segments)
    THEN BarLines(AZero, Approx(value), start, dimensions, AOne, AZero, width, color)
    ELSE IF RIsZero(length)
    THEN BarOfNoLength(start, width, value, color)
    ELSE BarLines(AZero, Approx(value), start, dimensions,
                  Filled(ADiv(Approx(width), Approx(length)), Approx(segments)),
                  ADiv(Approx(width), Approx(length)), width, color)

RingDraw(rect, width, value, segments, color) ==
    IF RIsZero(Width(rect)) \/ RIsZero(Height(rect)) THEN <<>>
    ELSE <<[op |-> "ring", center |-> Center(rect), radius |-> RMul(Half, Width(rect)),
            width |-> width, value |-> value, segments |-> segments, color |-> color]>>

\* "if(segments <= 1.) segments = 0."
Segments(segments) == IF RLe(segments, One) THEN Zero ELSE segments

BarDrawWith(color, width, isRing, rect, value, segments) ==
    IF color = NullPtr \/ RIsZero(width) \/ RIsZero(value) THEN <<>>
    ELSE IF isRing THEN RingDraw(rect, width, value, Segments(segments), color)
    ELSE BarSegmented(BottomRight(rect), PNeg(Dimensions(rect)),
                      Length(PNeg(Dimensions(rect))), width, value,
                      Segments(segments), color)

BarDraw(el, rect, inf, state) ==
    BarDrawWith(el.barColor, el.width, el.isRing, rect,
                InfoBarValue(inf, el.name), InfoBarSegments(inf, el.name))

----------------------------------------------------------------------------
\* Element::DrawAt, with the virtual NativeDimensions, Draw and Place.

NativeDimensions(el, inf, state) ==
    CASE el.kind = "image" -> ImageNativeDimensions(el, inf, state)
      [] el.kind = "text" -> TextNativeDimensions(el, inf, state)
      [] OTHER -> Dimensions(el.bounds)

Draw(el, rect, inf, state) ==
    CASE el.kind = "image" -> ImageDraw(el, rect, inf, state)
      [] el.kind = "text" -> TextDraw(el, rect, inf, state)
      [] el.kind = "bar" -> BarDraw(el, rect, inf, state)
      [] OTHER -> <<>>

Place(el, box, hasPanel) ==
    IF el.kind = "text" THEN TextPlace(el, box, hasPanel) ELSE <<>>

\* A variant of ActivationState with a slip: hovering counts for an inactive
\* element too.
ActivationStateHoverAlways(active, hovering) ==
    (IF active THEN ACTIVE ELSE INACTIVE) + (IF hovering THEN 1 ELSE 0)

\* "int state = active; state += (state && hovering);"
ActivationState(active, hovering) ==
    (IF active THEN ACTIVE ELSE INACTIVE) + (IF active /\ hovering THEN 1 ELSE 0)

DrawRect(el, anchor, nativeDimensions) ==
    Rectangle(
        PAdd(PAdd(Center(el.bounds), anchor),
             PMul(el.alignment,
                  PSub(PScale(Half, PSub(Dimensions(el.bounds), nativeDimensions)),
                       el.padding))),
        nativeDimensions)

\* What a visible element does once its state is known: the zones it places
\* and its call of Draw.
DrawIn(el, anchor, inf, hasPanel, state) ==
    [zones |-> IF hasPanel THEN Place(el, RectPlus(el.bounds, anchor), hasPanel) ELSE <<>>,
     call |-> <<[state |-> state,
                rect |-> DrawRect(el, anchor, NativeDimensions(el, inf, state)),
                ops |-> Draw(el, DrawRect(el, anchor, NativeDimensions(el, inf, state)),
                             inf, state)]>>]

DrawAt(el, anchor, inf, pointer, hasPanel) ==
    IF ~HasCondition(inf, el.visibleIf) THEN [zones |-> <<>>, call |-> <<>>]
    ELSE DrawIn(el, anchor, inf, hasPanel,
                ActivationState(HasCondition(inf, el.activeIf),
                                Contains(RectPlus(el.bounds, anchor), pointer)))

----------------------------------------------------------------------------
\* Interface::Draw, stepped element by element. The interface drawn is
\* loaded from a `visible` line, an `active` line and up to MaxDrawElements
\* element children; `log` holds those children.

DrawHeader == Line(<<Tok("interface"), Tok("hud"), Tok("bottom"), Tok("right")>>)
VisibleLines == {Line(<<Tok("visible"), Tok("if"), Tok("c")>>), Line(<<Tok("visible")>>)}
ActiveLines == {Line(<<Tok("active"), Tok("if"), Tok("d")>>), Line(<<Tok("active")>>)}
DrawChildren == {BuyButton, NamelessButton, EmptyNameButton, IconSprite, FuelBar}
DrawPicks ==
    {pk \in [child : DrawChildren, ub : FrontOutcomes] : pk.ub \in UbOutcomes(pk.child)}
Informations == {[conditions |-> s] : s \in SUBSET {"c", "d"}}
MousePositions == {P(6, 4), P(2, 1)}

\* The children the picks stand for, in file order, and what front() yields
\* for each.
PickedChildren(visible, active, picks) ==
    <<visible, active>> \o [j \in 1..Len(picks) |-> picks[j].child]
PickedUb(picks) == <<"", "">> \o [j \in 1..Len(picks) |-> picks[j].ub]

RECURSIVE LoadPicked(_, _, _, _)
LoadPicked(st, kids, ubs, i) ==
    IF i > Len(kids) THEN st
    ELSE LoadPicked(LoadChild(st, kids[i], ubs[i]), kids, ubs, i + 1)

LoadedForDraw(kids, ubs) ==
    LoadPicked([alignment |-> ParseAlignment(DrawHeader, NewInterface.alignment, 2),
                elements |-> NewInterface.elements, points |-> NewInterface.points,
                visibleIf |-> "", activeIf |-> ""],
               kids, ubs, 1)

DrawLoaded(st, kids) ==
    /\ alignment = st.alignment /\ elements = st.elements /\ points = st.points
    /\ visibleIf = st.visibleIf /\ activeIf = st.activeIf
    /\ header = DrawHeader /\ log = kids /\ ifacePc = "done"

InitDraw ==
    /\ \E n \in 0..MaxDrawElements : \E picks \in [1..n -> DrawPicks] :
       \E visible \in VisibleLines, active \in ActiveLines :
        DrawLoaded(LoadedForDraw(PickedChildren(visible, active, picks), PickedUb(picks)),
                   PickedChildren(visible, active, picks))
    /\ info \in Informations /\ mouse \in MousePositions /\ panel \in BOOLEAN
    /\ drawIdx = 0 /\ zones = <<>> /\ calls = <<>> /\ drawPc = "draw"
    /\ LoadIdle /\ FnIdle

Tagged(records, i) == [k \in 1..Len(records) |-> [index |-> i, rec |-> records[k]]]

\* One turn of the loop of Interface::Draw: DrawAt on the next element.
DrawStep(visible) ==
    /\ drawIdx < Len(elements)
    /\ HasCondition(info, elements[drawIdx + 1].visibleIf) = visible
    /\ \E out \in {DrawAt(elements[drawIdx + 1], Anchor(alignment), info, mouse, panel)} :
        /\ zones' = zones \o Tagged(out.zones, drawIdx + 1)
        /\ calls' = calls \o Tagged(out.call, drawIdx + 1)
    /\ drawIdx' = drawIdx + 1
    /\ UNCHANGED <<info, mouse, panel, drawPc>>
    /\ UNCHANGED <<loadVars, ifaceVars, fnVars>>

DrawVisible ==
    /\ drawPc = "draw"
    /\ DrawStep(TRUE)

DrawInvisible ==
    /\ drawPc = "draw"
    /\ DrawStep(FALSE)

DrawReturn ==
    /\ drawPc = "draw"
    /\ drawIdx = Len(elements)
    /\ drawPc' = "done"
    /\ UNCHANGED <<info, mouse, panel, drawIdx, zones, calls>>
    /\ UNCHANGED <<loadVars, ifaceVars, fnVars>>

DrawNext == DrawVisible \/ DrawInvisible \/ DrawReturn

SpecDraw == InitDraw /\ [][DrawNext]_vars

----------------------------------------------------------------------------
\* Properties of the draw pass (SpecDraw).

Box(i) == RectPlus(elements[i].bounds, Anchor(alignment))
Inside(box, pt) ==
    /\ RLe(Left(box), pt.x) /\ RLe(pt.x, Right(box))
    /\ RLe(Top(box), pt.y) /\ RLe(pt.y, Bottom(box))
ConditionHolds(name) == name = "" \/ name \in info.conditions
CallsOf(i) == {k \in 1..Len(calls) : calls[k].index = i}
ZonesOf(i) == {k \in 1..Len(zones) : zones[k].index = i}

\* C3: every visible element that DrawAt has handled is drawn once, with a
\* state that is INACTIVE iff its activation condition is set and false,
\* ACTIVE iff the condition holds or is empty and the pointer is outside
\* bounds + anchor, HOVER iff the condition holds or is empty and the pointer
\* is inside; no other state occurs, and Draw uses the sprite of that state.
C3_StateFollowsActivationAndPointer ==
    /\ \A i \in 1..drawIdx :
        ConditionHolds(elements[i].visibleIf) => Cardinality(CallsOf(i)) = 1
    /\ \A k \in 1..Len(calls) :
        LET i == calls[k].index
            state == calls[k].rec.state
        IN  /\ state \in {INACTIVE, ACTIVE, HOVER}
            /\ state = INACTIVE <=> ~ConditionHolds(elements[i].activeIf)
            /\ state = ACTIVE <=>
                ConditionHolds(elements[i].activeIf) /\ ~Inside(Box(i), mouse)
            /\ state = HOVER <=>
                ConditionHolds(elements[i].activeIf) /\ Inside(Box(i), mouse)
            /\ \A o \in 1..Len(calls[k].rec.ops) :
                calls[k].rec.ops[o].op = "sprite" =>
                    calls[k].rec.ops[o].sprite = At(elements[i].sprite, state)

\* An element under a false activation condition was drawn INACTIVE although
\* the pointer is inside its box.
C3_Witness ==
    \E k \in 1..Len(calls) :
        /\ calls[k].rec.state = INACTIVE
        /\ Inside(Box(calls[k].index), mouse)
        /\ elements[calls[k].index].activeIf = "d"

IsButton(c) == Token(c, 0) = "button"
HasName(c) == Size(c) >= 2 /\ Token(c, 1) # ""
IsFirstCharacter(key, name) == Len(key) = 1 /\ \E rest \in Rests : key \o rest = name
OneZone(i, c) ==
    /\ Cardinality(ZonesOf(i)) = 1
    /\ \A k \in ZonesOf(i) :
        /\ zones[k].rec.bounds = Box(i)
        /\ IsFirstCharacter(zones[k].rec.key, Token(c, 1))
InvisibleDoesNothing(i) ==
    ~ConditionHolds(elements[i].visibleIf) => ZonesOf(i) = {} /\ CallsOf(i) = {}

\* C4 as claimed: with a panel, every visible button that DrawAt has handled
\* has registered exactly one zone, bounds + anchor, keyed by the first
\* character of its name token; an invisible element has no zone and no
\* draw, and an element that is not a button has no zone.
C4_EveryVisibleButtonRegistersOneZone ==
    panel =>
        \A i \in 1..drawIdx :
            /\ (IsButton(log[PlaceOfElement(i)]) /\ ConditionHolds(elements[i].visibleIf))
                => Cardinality(ZonesOf(i)) = 1
            /\ (IsButton(log[PlaceOfElement(i)]) /\ HasName(log[PlaceOfElement(i)])
                    /\ ConditionHolds(elements[i].visibleIf))
                => OneZone(i, log[PlaceOfElement(i)])
            /\ InvisibleDoesNothing(i)
            /\ ~IsButton(log[PlaceOfElement(i)]) => ZonesOf(i) = {}

\* C4, amended: with a panel, a visible button whose name token is not empty
\* has registered exactly one zone, bounds + anchor, keyed by the first
\* character of the name, whatever its state; a `button` line without a name
\* token registers none; one with an empty name registers at most one, at
\* bounds + anchor; an invisible element has no zone and no draw, and an
\* element that is not a button has no zone.
C4_NamedVisibleButtonRegistersOneZone ==
    panel =>
        \A i \in 1..drawIdx :
            /\ (IsButton(log[PlaceOfElement(i)]) /\ HasName(log[PlaceOfElement(i)])
                    /\ ConditionHolds(elements[i].visibleIf))
                => OneZone(i, log[PlaceOfElement(i)])
            /\ (IsButton(log[PlaceOfElement(i)]) /\ Size(log[PlaceOfElement(i)]) < 2)
                => ZonesOf(i) = {}
            /\ IsButton(log[PlaceOfElement(i)]) =>
                /\ Cardinality(ZonesOf(i)) <= 1
                /\ \A k \in ZonesOf(i) : zones[k].rec.bounds = Box(i)
            /\ InvisibleDoesNothing(i)
            /\ ~IsButton(log[PlaceOfElement(i)]) => ZonesOf(i) = {}

\* A finished pass with a panel in which the "Buy" button was drawn INACTIVE
\* and has its zone, next to an element that is not a button.
C4_Witness ==
    /\ drawPc = "done" /\ panel
    /\ \E i \in 1..Len(elements) :
        /\ log[PlaceOfElement(i)] = BuyButton
        /\ \E k \in CallsOf(i) : calls[k].rec.state = INACTIVE
        /\ \E k \in ZonesOf(i) : zones[k].rec.key = "B"
    /\ \E i \in 1..Len(elements) : ~IsButton(log[PlaceOfElement(i)])

----------------------------------------------------------------------------
\* BarElement::Draw on its own: a bar or ring with its settings, the
\* rectangle it is drawn in, and what the Information object reports.

BarColors == {NullPtr, ColorsGet("active")}
BarWidths == {Zero, One, RInt(2)}
BarRects == {Rectangle(P(1, 1), P(0, 4)), Rectangle(P(2, 2), P(0, 0)),
             Rectangle(P(1, 1), P(3, 4))}
BarValues == {R(k, ValueSteps) : k \in 0..ValueSteps}
BarSegmentCounts == {RInt(k) : k \in 0..MaxSegments} \cup {Half}

BarInit ==
    /\ barIn \in [color : BarColors, width : BarWidths, isRing : BOOLEAN,
                  rect : BarRects, value : BarValues, segments : BarSegmentCounts]
    /\ barOut = [done |-> FALSE, ops |-> <<>>]

BarElementDraw ==
    /\ ~barOut.done
    /\ barOut' = [done |-> TRUE,
                  ops |-> BarDrawWith(barIn.color, barIn.width, barIn.isRing, barIn.rect,
                                      barIn.value, barIn.segments)]
    /\ UNCHANGED <<barIn, imgIn, imgOut>>
    /\ UNCHANGED <<loadVars, ifaceVars, drawVars>>

BarNext == BarElementDraw

InitBar ==
    /\ BarInit /\ imgIn = <<>> /\ imgOut = <<>>
    /\ LoadIdle /\ IfaceIdle /\ DrawIdle

SpecBar == InitBar /\ [][BarNext]_vars

----------------------------------------------------------------------------
\* Properties of BarElement::Draw (SpecBar).

\* The case C5 is about: a bar drawn with a color, a width above zero and a
\* value in (0, 1].
BarDrawn ==
    /\ barOut.done /\ ~barIn.isRing /\ barIn.color # NullPtr
    /\ RLt(Zero, barIn.width) /\ RLt(Zero, barIn.value) /\ RLe(barIn.value, One)
Diagonal == Length(Dimensions(barIn.rect))
WholeSegments == barIn.segments.d = 1 /\ barIn.segments.n > 1

\* The length of a drawn line; not a number when an end point is not.
LineLength(line) ==
    IF line.to = NaNPoint THEN NaN ELSE Length(PSub(line.to, line.from))
RECURSIVE SumOfLengths(_, _)
SumOfLengths(ops, k) ==
    IF k > Len(ops) THEN Zero
    ELSE IF LineLength(ops[k]) = NaN \/ SumOfLengths(ops, k + 1) = NaN THEN NaN
    ELSE RAdd(LineLength(ops[k]), SumOfLengths(ops, k + 1))

\* How far the vector `along` reaches along the diagonal `dimensions`, as a
\* signed fraction of it.
Fraction(along, dimensions) ==
    IF ~RIsZero(dimensions.x) THEN RDiv(along.x, dimensions.x)
    ELSE RDiv(along.y, dimensions.y)
\* The bar runs from the bottom-right corner towards the top-left one.
Direction == PNeg(Dimensions(barIn.rect))
Extent(line) == Fraction(PSub(line.to, line.from), Direction)
RECURSIVE SumOfExtents(_, _)
SumOfExtents(ops, k) ==
    IF k > Len(ops) THEN Zero ELSE RAdd(Extent(ops[k]), SumOfExtents(ops, k + 1))

OneLineCoveringValue ==
    /\ Len(barOut.ops) = 1
    /\ barOut.ops[1].from = BottomRight(barIn.rect)
    /\ barOut.ops[1].to =
        PAdd(BottomRight(barIn.rect), PScale(barIn.value, Direction))

\* C5 as claimed: with at most one segment, one line from the bottom-right
\* corner covering `value` of the diagonal; with N > 1 segments, exactly N
\* lines with a gap between each two, whose lengths sum to value times the
\* length of the diagonal.
C5_BarDrawsNLinesSummingToValue ==
    BarDrawn =>
        /\ RLe(barIn.segments, One) => OneLineCoveringValue
        /\ WholeSegments =>
            /\ Len(barOut.ops) = barIn.segments.n
            /\ \A k \in 1..(Len(barOut.ops) - 1) :
                barOut.ops[k + 1].from # barOut.ops[k].to
            /\ SumOfLengths(barOut.ops, 1) = RMul(barIn.value, Diagonal)

\* C5, amended: with at most one segment, as claimed. With N > 1 segments
\* and a diagonal that is not zero, between 1 and N lines are drawn, the
\* first from the bottom-right corner, N of them when value is 1 and the
\* N - 1 gaps of `width` are shorter than the diagonal; each line starts
\* `width` after the end of the one before; and the extents of the lines
\* along the diagonal sum to the place where the last line ends, at most
\* `value`, less the gaps between the lines. With N > 1 segments and a
\* diagonal of zero, one line is drawn whose end point is not a number.
C5_BarDrawsRunsUpToValue ==
    BarDrawn =>
        /\ RLe(barIn.segments, One) => OneLineCoveringValue
        /\ (WholeSegments /\ ~RIsZero(Diagonal)) =>
            /\ Len(barOut.ops) \in 1..barIn.segments.n
            /\ barOut.ops[1].from = BottomRight(barIn.rect)
            /\ (barIn.value = One
                    /\ RLt(RMul(RSub(barIn.segments, One), barIn.width), Diagonal))
                => Len(barOut.ops) = barIn.segments.n
            /\ \A k \in 1..(Len(barOut.ops) - 1) :
                Fraction(PSub(barOut.ops[k + 1].from, barOut.ops[k].to), Direction)
                    = RDiv(barIn.width, Diagonal)
            /\ RLe(Fraction(PSub(barOut.ops[Len(barOut.ops)].to,
                                 BottomRight(barIn.rect)), Direction),
                   barIn.value)
            /\ SumOfExtents(barOut.ops, 1)
                = RSub(Fraction(PSub(barOut.ops[Len(barOut.ops)].to,
                                     BottomRight(barIn.rect)), Direction),
                       RMul(RInt(Len(barOut.ops) - 1), RDiv(barIn.width, Diagonal)))
        /\ (WholeSegments /\ RIsZero(Diagonal)) =>
            /\ Len(barOut.ops) = 1
            /\ barOut.ops[1].from = BottomRight(barIn.rect)
            /\ barOut.ops[1].to = NaNPoint

\* A bar of three segments at half its value: two lines, fewer than the
\* segments, with one gap.
C5_Witness ==
    /\ BarDrawn /\ barIn.segments = RInt(3) /\ barIn.value = Half
    /\ ~RIsZero(Diagonal)
    /\ Len(barOut.ops) = 2

----------------------------------------------------------------------------
\* ImageElement::NativeDimensions on its own: an image element as its
\* constructor loads it from a child, asked for its size in a state.

ImageSizeLines ==
    {<<>>,
     <<Line(<<Tok("width"), Num(64)>>)>>,
     <<Line(<<Tok("height"), Num(64)>>)>>,
     <<Line(<<Tok("width"), Num(2000)>>)>>,
     <<Line(<<Tok("height"), Num(2000)>>)>>,
     <<Line(<<Tok("dimensions"), Num(64), Num(64)>>)>>,
     <<Line(<<Tok("dimensions"), Num(64), Num(16)>>),
       Line(<<Tok("hover"), Tok("tall")>>)>>}
ImageChildren ==
    {Node(<<Tok(key), Tok(name)>>, lines) :
        key \in {"sprite", "image"}, name \in {"icon", "dot", "tall", "ship", "none"},
        lines \in ImageSizeLines}

ImageInit ==
    /\ imgIn \in [child : ImageChildren, state : {INACTIVE, ACTIVE, HOVER}]
    /\ imgOut = [done |-> FALSE, size |-> P0]

ImageElementNativeDimensions ==
    /\ ~imgOut.done
    /\ imgOut' = [done |-> TRUE,
                  size |-> ImageNativeDimensions(ImageElement(imgIn.child, P0), info,
                                                 imgIn.state)]
    /\ UNCHANGED <<barIn, barOut, imgIn>>
    /\ UNCHANGED <<loadVars, ifaceVars, drawVars>>

ImageNext == ImageElementNativeDimensions

InitImage ==
    /\ ImageInit /\ barIn = <<>> /\ barOut = <<>>
    /\ LoadIdle /\ IfaceIdle /\ DrawIdle

SpecImage == InitImage /\ [][ImageNext]_vars

----------------------------------------------------------------------------
\* Properties of ImageElement::NativeDimensions (SpecImage).

ImageBounds == Dimensions(ImageElement(imgIn.child, P0).bounds)
ImageSpriteSize ==
    SpriteSize(GetSprite(ImageElement(imgIn.child, P0), info, imgIn.state))

\* C8: when the bounds of an image constrain one axis only and its sprite
\* has a width and a height, the native dimensions are the sprite's size
\* times the ratio of the constrained axis: that axis equals the bound and
\* the other is in proportion.
C8_OneConstrainedAxisSetsTheScale ==
    (imgOut.done /\ ~RIsZero(ImageSpriteSize.x) /\ ~RIsZero(ImageSpriteSize.y)) =>
        /\ (~RIsZero(ImageBounds.x) /\ RIsZero(ImageBounds.y)) =>
            /\ imgOut.size.x = ImageBounds.x
            /\ imgOut.size.y
                = RDiv(RMul(ImageSpriteSize.y, ImageBounds.x), ImageSpriteSize.x)
        /\ (RIsZero(ImageBounds.x) /\ ~RIsZero(ImageBounds.y)) =>
            /\ imgOut.size.y = ImageBounds.y
            /\ imgOut.size.x
                = RDiv(RMul(ImageSpriteSize.x, ImageBounds.y), ImageSpriteSize.y)

\* The example of the claim: width 64, no height and a sprite of 32 x 16
\* give (64, 32).
C8_Example ==
    /\ imgOut.done /\ ImageSpriteSize = P(32, 16) /\ ImageBounds = P(64, 0)
    /\ imgOut.size = P(64, 32)

====
